---- MODULE Spec2Model ----
(***************************************************************************)
(* Result / AsyncResult (sakobu/result).                                   *)
(*                                                                         *)
(* Two specifications over one set of definitions:                         *)
(*   Spec     one AsyncResult instance built by the constructor around a   *)
(*            promise that is still pending, and several operations        *)
(*            started on it in any interleaving (getResolvedData's await   *)
(*            is a suspension point);                                      *)
(*   SpecLib  a sequential client that builds Result and AsyncResult       *)
(*            instances through the static factories and calls their       *)
(*            methods, every call awaited before the next one.             *)
(***************************************************************************)
EXTENDS Integers, Sequences, FiniteSets, TLC

VARIABLES
    promise,       \* AsyncResult.promise of the shared instance (Spec)
    resolvedData,  \* AsyncResult.resolvedData of the shared instance (Spec)
    evals,         \* times the wrapped computation ran its counted side effect
    writes,        \* assignments made to resolvedData
    pc,            \* per caller: idle | awaitPromise | awaitData | done
    call,          \* per caller: the method it invoked
    sawEmpty,      \* per caller: outcome of the test `!this.resolvedData`
    got,           \* per caller: completion of getResolvedData()
    out,           \* per caller: completion of the method
    started,       \* number of method calls started so far
    cur,           \* SpecLib, SpecAssoc: the instance the client holds;
                   \* SpecPair: the <<Result, AsyncResult>> pair it holds
    via,           \* SpecLib: the call that produced cur
    last,          \* SpecLib: the last library call and its completion
    lhs,           \* SpecAssoc, SpecPair: completion of the left-hand (Result) side
    rhs,           \* SpecAssoc, SpecPair: completion of the right-hand (AsyncResult) side
    steps          \* SpecPair: combinator steps taken by the pipeline

concVars == <<promise, resolvedData, evals, writes, pc, call, sawEmpty, got, out, started>>
libVars == <<cur, via, last>>
lawVars == <<lhs, rhs, steps>>
vars == <<promise, resolvedData, evals, writes, pc, call, sawEmpty, got, out, started, cur, via, last,
          lhs, rhs, steps>>

----------------------------------------------------------------------------
(* Bounds of the model *)

NCallers == 2
MaxCalls == 3
NumMax == 1
MaxSteps == 2

----------------------------------------------------------------------------
(* JavaScript values.  Record constructors list their fields in the order
   in which TLC normalises them, so that a record is built normalised. *)

Num(n) == [n |-> n, t |-> "number"]
Str(s) == [t |-> "string", s |-> s]
Bool(b) == [t |-> "boolean", b |-> b]
NullV == [t |-> "null"]
UndefV == [t |-> "undefined"]
Sym == [t |-> "symbol"]
ErrorObj(msg) == [t |-> "Error", message |-> msg]
TypeErrorObj == [t |-> "TypeError"]

\* a settled native promise, as a value
PFulfilled(v) == [t |-> "promise", state |-> "fulfilled", value |-> v]
PRejected(r) == [t |-> "promise", state |-> "rejected", reason |-> r]
PPending == [t |-> "promise", state |-> "pending"]

\* completion records of a call
Return(v) == [v |-> v, k |-> "return"]
Throw(x) == [v |-> x, k |-> "throw"]
NoCompletion == [k |-> "none"]

IsData(x) == "_tag" \in DOMAIN x

OkData(v) == [value |-> v, _tag |-> "Ok"]
ErrData(e) == [_tag |-> "Err", error |-> e]

\* ToBoolean, as used by `!x`
Falsy(x) ==
    IF IsData(x) THEN FALSE
    ELSE CASE x.t = "null" -> TRUE
           [] x.t = "undefined" -> TRUE
           [] x.t = "number" -> x.n = 0
           [] x.t = "string" -> x.s = ""
           [] x.t = "boolean" -> ~x.b
           [] OTHER -> FALSE

----------------------------------------------------------------------------
(* Conversions of the language the code relies on *)

\* ToString as applied by a template literal `${x}`: a Symbol cannot be converted
TemplateString(x) ==
    CASE x.t = "number" -> Return(Str(ToString(x.n)))
      [] x.t = "string" -> Return(x)
      [] x.t = "boolean" -> Return(Str(IF x.b THEN "true" ELSE "false"))
      [] x.t = "null" -> Return(Str("null"))
      [] x.t = "undefined" -> Return(Str("undefined"))
      [] x.t = "symbol" -> Throw(TypeErrorObj)
      [] x.t = "Error" -> Return(Str("Error: " \o x.message))
      [] x.t = "TypeError" -> Return(Str("TypeError"))
      [] x.t = "promise" -> Return(Str("[object Promise]"))
      [] OTHER -> Return(Str("[object Object]"))

TypeOf(x) ==
    CASE x.t \in {"number", "string", "boolean", "undefined", "symbol"} -> Str(x.t)
      [] OTHER -> Str("object")

\* `x == null`
LooseNull(x) == x.t \in {"null", "undefined"}

\* `await x` (and `await Promise.resolve(x)`): a settled promise yields its
\* settlement, any other value yields itself
Await(x) ==
    IF x.t = "promise"
    THEN IF x.state = "fulfilled" THEN Return(x.value) ELSE Throw(x.reason)
    ELSE Return(x)

\* Promise.resolve(x)
PromiseResolve(x) == IF x.t = "promise" THEN x ELSE PFulfilled(x)

----------------------------------------------------------------------------
(* Instances *)

\* new Result(data)
NewResult(data) == [t |-> "Result", data |-> data]

\* new AsyncResult(promise): the slot starts empty
NewAsyncResult(p) == [promise |-> p, resolvedData |-> NullV, t |-> "AsyncResult"]

----------------------------------------------------------------------------
(* Caller-supplied functions, by name *)

MapFns == {"same", "typeOf", "boom", "later", "fails"}
SyncChainFns == {"okSame", "errType", "boom"}
AsyncChainFns == {"okSame", "errType", "direct", "directFails", "plain", "boom", "fails"}

\* the name of x => f(x).chain(g)
Composed(f, g) == f \o ">" \o g

\* the <<f, g>> a composed name stands for
Parts(h, Fns) == CHOOSE p \in Fns \X Fns : Composed(p[1], p[2]) = h

\* the completion of the call f(x)
Apply(f, x) ==
    CASE f = "same" -> Return(x)
      [] f = "typeOf" -> Return(TypeOf(x))
      [] f = "boom" -> Throw(ErrorObj("boom"))
      [] f = "later" -> Return(PFulfilled(TypeOf(x)))
      [] f = "fails" -> Return(PRejected(ErrorObj("boom")))

\* what a method call yields: the receiver afterwards, the completion, and the
\* caller-supplied functions it invoked, in order, each as <<parameter, argument>>
Outcome(self, completion, calls) == [out |-> completion, self |-> self, calls |-> calls]

----------------------------------------------------------------------------
(* class Result *)

ResultOk(value) == NewResult(OkData(value))

ResultErr(error) == NewResult(ErrData(error))

\* fromNullableWithError that tests `!value` instead of `value == null`
ResultFromFalsyWithError(error, value) ==
    IF Falsy(value) THEN ResultErr(error) ELSE ResultOk(value)

ResultFromNullableWithError(error, value) ==
    IF LooseNull(value) THEN ResultErr(error) ELSE ResultOk(value)

\* a thunk is [body |-> "return" | "throw", v |-> value]; sync tryCatch
\* wraps whatever f returns (a promise included) without awaiting it
RunThunk(f) ==
    CASE f.body = "return" -> Return(f.v)
      [] f.body = "throw" -> Throw(f.v)
      [] f.body = "resolve" -> Return(PFulfilled(f.v))
      [] f.body = "reject" -> Return(PRejected(f.v))

ResultTryCatch(f, onError) ==
    LET r == RunThunk(f) IN
    IF r.k = "return"
    THEN [out |-> Return(ResultOk(r.v)), calls |-> <<<<"f", UndefV>>>>]
    ELSE LET h == Apply(onError, r.v) IN
         [out |-> IF h.k = "throw" THEN h ELSE Return(ResultErr(h.v)),
          calls |-> <<<<"f", UndefV>>, <<"onError", r.v>>>>]

RECURSIVE ResultChain(_, _)

\* x => Result.ok(x), x => Result.err(typeof x), x => { throw ... }, and the
\* compositions x => f(x).chain(g) of these
RECURSIVE ApplySyncChain(_, _)
ApplySyncChain(f, x) ==
    CASE f = "okSame" -> Return(ResultOk(x))
      [] f = "errType" -> Return(ResultErr(TypeOf(x)))
      [] f = "boom" -> Throw(ErrorObj("boom"))
      [] OTHER ->
           LET p == Parts(f, SyncChainFns)
               a == ApplySyncChain(p[1], x)
           IN IF a.k = "throw" THEN a ELSE ResultChain(a.v, p[2]).out

\* rMap that overwrites the receiver's data instead of building a new instance
ResultRMapInPlace(self, f) ==
    IF self.data._tag = "Ok"
    THEN LET a == Apply(f, self.data.value) IN
         IF a.k = "throw" THEN Outcome(self, a, <<<<"f", self.data.value>>>>)
         ELSE Outcome(ResultOk(a.v), Return(ResultOk(a.v)), <<<<"f", self.data.value>>>>)
    ELSE Outcome(self, Return(ResultErr(self.data.error)), <<>>)

ResultRMap(self, f) ==
    IF self.data._tag = "Ok"
    THEN LET a == Apply(f, self.data.value) IN
         Outcome(self, IF a.k = "throw" THEN a ELSE Return(ResultOk(a.v)),
                 <<<<"f", self.data.value>>>>)
    ELSE Outcome(self, Return(ResultErr(self.data.error)), <<>>)

ResultRMapErr(self, f) ==
    IF self.data._tag = "Err"
    THEN LET a == Apply(f, self.data.error) IN
         Outcome(self, IF a.k = "throw" THEN a ELSE Return(ResultErr(a.v)),
                 <<<<"f", self.data.error>>>>)
    ELSE Outcome(self, Return(ResultOk(self.data.value)), <<>>)

\* chain that recovers: a Failure comes out as a Success carrying the error
ResultChainRecovering(self, f) ==
    IF self.data._tag = "Ok"
    THEN Outcome(self, ApplySyncChain(f, self.data.value), <<<<"f", self.data.value>>>>)
    ELSE Outcome(self, Return(ResultOk(self.data.error)), <<>>)

ResultChain(self, f) ==
    IF self.data._tag = "Ok"
    THEN Outcome(self, ApplySyncChain(f, self.data.value), <<<<"f", self.data.value>>>>)
    ELSE Outcome(self, Return(ResultErr(self.data.error)), <<>>)

ResultMatch(self, onErr, onOk) ==
    IF self.data._tag = "Ok"
    THEN Outcome(self, Apply(onOk, self.data.value), <<<<"onOk", self.data.value>>>>)
    ELSE Outcome(self, Apply(onErr, self.data.error), <<<<"onErr", self.data.error>>>>)

UnwrapMessage == "Called unwrap on an Err value: "
UnwrapErrMessage == "Called unwrapErr on an Ok value"

\* new Error(`Called unwrap on an Err value: ${error}`)
UnwrapFailure(error) ==
    LET s == TemplateString(error) IN
    IF s.k = "throw" THEN s ELSE Throw(ErrorObj(UnwrapMessage \o s.v.s))

ResultUnwrap(self) ==
    IF self.data._tag = "Ok"
    THEN Outcome(self, Return(self.data.value), <<>>)
    ELSE Outcome(self, UnwrapFailure(self.data.error), <<>>)

\* unwrapOr that falls back only when the default is truthy, and otherwise unwraps
ResultUnwrapOrViaUnwrap(self, defaultValue) ==
    IF self.data._tag = "Ok" \/ ~Falsy(defaultValue)
    THEN Outcome(self, Return(IF self.data._tag = "Ok" THEN self.data.value ELSE defaultValue), <<>>)
    ELSE Outcome(self, UnwrapFailure(self.data.error), <<>>)

ResultUnwrapOr(self, defaultValue) ==
    Outcome(self, Return(IF self.data._tag = "Ok" THEN self.data.value ELSE defaultValue), <<>>)

ResultUnwrapErr(self) ==
    IF self.data._tag = "Err"
    THEN Outcome(self, Return(self.data.error), <<>>)
    ELSE Outcome(self, Throw(ErrorObj(UnwrapErrMessage)), <<>>)

ResultToPromise(self) ==
    IF self.data._tag = "Ok"
    THEN Outcome(self, Return(PromiseResolve(self.data.value)), <<>>)
    ELSE Outcome(self, Return(PRejected(self.data.error)), <<>>)

ResultIsOk(self) == Outcome(self, Return(Bool(self.data._tag = "Ok")), <<>>)

ResultIsErr(self) == Outcome(self, Return(Bool(self.data._tag = "Err")), <<>>)

----------------------------------------------------------------------------
(* class AsyncResult; a completion here is that of awaiting the call:        *)
(* Return(v) when the returned promise fulfils with v, Throw(x) when it      *)
(* rejects with x                                                            *)

\* the promise an async function returns, from the completion of its body
AsPromise(c) == IF c.k = "return" THEN PromiseResolve(c.v) ELSE PRejected(c.v)

\* `return x` in an async function, as seen by the awaiting caller
AsyncReturn(x) == Await(x)

\* `!this.resolvedData`
SlotEmpty(slot) == Falsy(slot)

\* getResolvedData that catches a rejection and stores it as a Failure
GetResolvedDataCatching(self) ==
    IF SlotEmpty(self.resolvedData)
    THEN LET a == Await(self.promise)
             stored == [self EXCEPT !.resolvedData =
                           IF a.k = "throw" THEN ErrData(a.v) ELSE a.v]
         IN Outcome(stored, Return(stored.resolvedData), <<>>)
    ELSE Outcome(self, Return(self.resolvedData), <<>>)

\* getResolvedData with the wrapped promise already settled
GetResolvedData(self) ==
    IF SlotEmpty(self.resolvedData)
    THEN LET a == Await(self.promise) IN
         IF a.k = "throw"
         THEN Outcome(self, a, <<>>)
         ELSE LET stored == [self EXCEPT !.resolvedData = a.v] IN
              Outcome(stored, Return(stored.resolvedData), <<>>)
    ELSE Outcome(self, Return(self.resolvedData), <<>>)

AsyncOk(value) ==
    LET resolvedValue == Await(PromiseResolve(value)) IN
    IF resolvedValue.k = "throw" THEN resolvedValue
    ELSE Return(NewAsyncResult(PFulfilled(OkData(resolvedValue.v))))

\* err with the tag of ok
AsyncErrTaggedOk(error) ==
    LET resolvedError == Await(PromiseResolve(error)) IN
    IF resolvedError.k = "throw" THEN resolvedError
    ELSE Return(NewAsyncResult(PFulfilled(OkData(resolvedError.v))))

AsyncErr(error) ==
    LET resolvedError == Await(PromiseResolve(error)) IN
    IF resolvedError.k = "throw" THEN resolvedError
    ELSE Return(NewAsyncResult(PFulfilled(ErrData(resolvedError.v))))

AsyncFromNullableWithError(error, value) ==
    LET resolvedValue == Await(PromiseResolve(value)) IN
    IF resolvedValue.k = "throw" THEN resolvedValue
    ELSE IF LooseNull(resolvedValue.v) THEN AsyncErr(error) ELSE AsyncOk(resolvedValue.v)

\* the catch clause shared by tryCatch and fromPromise
AsyncCatch(onError, error) ==
    LET h == Apply(onError, error) IN
    IF h.k = "throw" THEN h ELSE AsyncErr(h.v)

\* tryCatch that invokes f before entering the try block
AsyncTryCatchUnguarded(f, onError) ==
    LET r == RunThunk(f)
        value == IF r.k = "throw" THEN r ELSE Await(r.v)
    IN IF r.k = "throw" THEN [out |-> r, calls |-> <<<<"f", UndefV>>>>]
       ELSE IF value.k = "return"
       THEN [out |-> AsyncOk(value.v), calls |-> <<<<"f", UndefV>>>>]
       ELSE [out |-> AsyncCatch(onError, value.v),
             calls |-> <<<<"f", UndefV>>, <<"onError", value.v>>>>]

AsyncTryCatch(f, onError) ==
    LET r == RunThunk(f)
        value == IF r.k = "throw" THEN r ELSE Await(r.v)
    IN IF value.k = "return"
       THEN [out |-> AsyncOk(value.v), calls |-> <<<<"f", UndefV>>>>]
       ELSE [out |-> AsyncCatch(onError, value.v),
             calls |-> <<<<"f", UndefV>>, <<"onError", value.v>>>>]

AsyncFromPromise(p, onError) ==
    LET value == Await(p) IN
    IF value.k = "return"
    THEN [out |-> AsyncOk(value.v), calls |-> <<>>]
    ELSE [out |-> AsyncCatch(onError, value.v), calls |-> <<<<"onError", value.v>>>>]

RECURSIVE AsyncMethod(_, _)

\* x => AsyncResult.ok(x), x => AsyncResult.err(typeof x) (both return a promise
\* of an instance), x => new AsyncResult(...) around a promise that fulfils and
\* around one that rejects, x => typeof x, two failing ones,
\* and the compositions async x => (await f(x)).chain(g) of these; calling
\* .chain on what is not an instance is a TypeError
RECURSIVE ApplyAsyncChain(_, _)
ApplyAsyncChain(f, x) ==
    CASE f = "okSame" -> Return(AsPromise(AsyncOk(x)))
      [] f = "errType" -> Return(AsPromise(AsyncErr(TypeOf(x))))
      [] f = "direct" -> Return(NewAsyncResult(PFulfilled(OkData(x))))
      [] f = "directFails" -> Return(NewAsyncResult(PRejected(ErrorObj("rejected"))))
      [] f = "plain" -> Return(TypeOf(x))
      [] f = "boom" -> Throw(ErrorObj("boom"))
      [] f = "fails" -> Return(PRejected(ErrorObj("boom")))
      [] OTHER ->
           LET p == Parts(f, AsyncChainFns)
               a == ApplyAsyncChain(p[1], x)
               inst == IF a.k = "throw" THEN a ELSE Await(a.v)
           IN Return(AsPromise(
                  IF inst.k = "throw" THEN inst
                  ELSE IF inst.v.t # "AsyncResult" THEN Throw(TypeErrorObj)
                  ELSE AsyncMethod(inst.v, [f |-> p[2], m |-> "chain"]).out))

(* The part of each method after `const data = await this.getResolvedData()`: *)
(* [out, calls] from the resolved data                                        *)

Body(completion, calls) == [out |-> completion, calls |-> calls]

\* rMap that applies f before looking at the tag
RMapBodyEager(data, f) ==
    LET x == IF data._tag = "Ok" THEN data.value ELSE data.error
        a == Apply(f, x)
        b == IF a.k = "throw" THEN a ELSE Await(PromiseResolve(a.v))
    IN IF data._tag = "Ok"
       THEN Body(IF b.k = "throw" THEN b ELSE AsyncOk(b.v), <<<<"f", x>>>>)
       ELSE Body(AsyncErr(data.error), <<<<"f", x>>>>)

RMapBody(data, f) ==
    IF data._tag = "Ok"
    THEN LET a == Apply(f, data.value)
             b == IF a.k = "throw" THEN a ELSE Await(PromiseResolve(a.v))
         IN Body(IF b.k = "throw" THEN b ELSE AsyncOk(b.v), <<<<"f", data.value>>>>)
    ELSE Body(AsyncErr(data.error), <<>>)

RMapErrBody(data, f) ==
    IF data._tag = "Err"
    THEN LET a == Apply(f, data.error)
             e == IF a.k = "throw" THEN a ELSE Await(PromiseResolve(a.v))
         IN Body(IF e.k = "throw" THEN e ELSE AsyncErr(e.v), <<<<"f", data.error>>>>)
    ELSE Body(AsyncOk(data.value), <<>>)

\* chain without the instanceof test: whatever f gives is wrapped again
ChainBodyRewrapping(data, f) ==
    IF data._tag = "Ok"
    THEN LET a == ApplyAsyncChain(f, data.value)
             result == IF a.k = "throw" THEN a ELSE Await(a.v)
         IN Body(IF result.k = "throw" THEN result ELSE AsyncOk(result.v),
                 <<<<"f", data.value>>>>)
    ELSE Body(AsyncErr(data.error), <<>>)

\* chain without the test of the tag: f is handed the payload of either variant
ChainBodyNoShortCircuit(data, f) ==
    LET x == IF data._tag = "Ok" THEN data.value ELSE data.error
        a == ApplyAsyncChain(f, x)
        result == IF a.k = "throw" THEN a ELSE Await(a.v)
    IN Body(IF result.k = "throw" THEN result
            ELSE IF result.v.t = "AsyncResult" THEN Return(result.v)
            ELSE AsyncOk(result.v),
            <<<<"f", x>>>>)

ChainBody(data, f) ==
    IF data._tag = "Ok"
    THEN LET a == ApplyAsyncChain(f, data.value)
             result == IF a.k = "throw" THEN a ELSE Await(a.v)
         IN Body(IF result.k = "throw" THEN result
                 ELSE IF result.v.t = "AsyncResult" THEN Return(result.v)
                 ELSE AsyncOk(result.v),
                 <<<<"f", data.value>>>>)
    ELSE Body(AsyncErr(data.error), <<>>)

\* match that evaluates both branches before choosing
MatchBodyBothBranches(data, onErr, onOk) ==
    LET x == IF data._tag = "Ok" THEN data.value ELSE data.error
        a == Apply(IF data._tag = "Ok" THEN onOk ELSE onErr, x)
    IN Body(IF a.k = "throw" THEN a ELSE Await(PromiseResolve(a.v)),
            <<<<"onErr", x>>, <<"onOk", x>>>>)

MatchBody(data, onErr, onOk) ==
    IF data._tag = "Ok"
    THEN LET a == Apply(onOk, data.value) IN
         Body(IF a.k = "throw" THEN a ELSE Await(PromiseResolve(a.v)), <<<<"onOk", data.value>>>>)
    ELSE LET a == Apply(onErr, data.error) IN
         Body(IF a.k = "throw" THEN a ELSE Await(PromiseResolve(a.v)), <<<<"onErr", data.error>>>>)

UnwrapBody(data) ==
    IF data._tag = "Ok" THEN Body(AsyncReturn(data.value), <<>>)
    ELSE Body(UnwrapFailure(data.error), <<>>)

\* unwrapOr written as `data.value || defaultValue`
UnwrapOrBodyFalsy(data, defaultValue) ==
    Body(AsyncReturn(IF data._tag = "Ok" /\ ~Falsy(data.value) THEN data.value
                     ELSE defaultValue), <<>>)

UnwrapOrBody(data, defaultValue) ==
    Body(AsyncReturn(IF data._tag = "Ok" THEN data.value ELSE defaultValue), <<>>)

\* unwrapErr that reads data.error whatever the tag: undefined on a Success
UnwrapErrBodyUnchecked(data) ==
    IF data._tag = "Err" THEN Body(AsyncReturn(data.error), <<>>)
    ELSE Body(Return(UndefV), <<>>)

UnwrapErrBody(data) ==
    IF data._tag = "Err" THEN Body(AsyncReturn(data.error), <<>>)
    ELSE Body(Throw(ErrorObj(UnwrapErrMessage)), <<>>)

\* toPromise that rejects as unwrap does, with an Error around the error
ToPromiseBodyWrapping(data) ==
    IF data._tag = "Ok" THEN Body(AsyncReturn(data.value), <<>>)
    ELSE Body(UnwrapFailure(data.error), <<>>)

ToPromiseBody(data) ==
    IF data._tag = "Ok" THEN Body(AsyncReturn(data.value), <<>>)
    ELSE Body(Throw(data.error), <<>>)

IsOkBody(data) == Body(Return(Bool(data._tag = "Ok")), <<>>)

IsErrBody(data) == Body(Return(Bool(data._tag = "Err")), <<>>)

----------------------------------------------------------------------------
(* Method calls as data: [m |-> method, ...arguments] *)

NoCall == [m |-> "none"]
CallRMap(f) == [f |-> f, m |-> "rMap"]
CallRMapErr(f) == [f |-> f, m |-> "rMapErr"]
CallChain(f) == [f |-> f, m |-> "chain"]
CallMatch(onErr, onOk) == [onErr |-> onErr, onOk |-> onOk, m |-> "match"]
CallUnwrap == [m |-> "unwrap"]
CallUnwrapOr(d) == [defaultValue |-> d, m |-> "unwrapOr"]
CallUnwrapErr == [m |-> "unwrapErr"]
CallToPromise == [m |-> "toPromise"]
CallIsOk == [m |-> "isOk"]
CallIsErr == [m |-> "isErr"]

\* the rest of AsyncResult method c.m once getResolvedData() has returned data
AsyncBody(c, data) ==
    CASE c.m = "rMap" -> RMapBody(data, c.f)
      [] c.m = "rMapErr" -> RMapErrBody(data, c.f)
      [] c.m = "chain" -> ChainBody(data, c.f)
      [] c.m = "match" -> MatchBody(data, c.onErr, c.onOk)
      [] c.m = "unwrap" -> UnwrapBody(data)
      [] c.m = "unwrapOr" -> UnwrapOrBody(data, c.defaultValue)
      [] c.m = "unwrapErr" -> UnwrapErrBody(data)
      [] c.m = "toPromise" -> ToPromiseBody(data)
      [] c.m = "isOk" -> IsOkBody(data)
      [] c.m = "isErr" -> IsErrBody(data)

\* an AsyncResult method awaited to completion on an instance whose promise has settled
AsyncMethod(self, c) ==
    LET g == GetResolvedData(self) IN
    IF g.out.k = "throw" THEN g
    ELSE LET b == AsyncBody(c, g.out.v) IN Outcome(g.self, b.out, b.calls)

----------------------------------------------------------------------------
(* Spec: operations interleaved on one AsyncResult instance *)

Callers == 1 .. NCallers

ConcValues == {Num(0), Str("e")}

\* what the wrapped promise may settle to
Settlements ==
    {PFulfilled(OkData(v)) : v \in ConcValues}
        \cup {PFulfilled(ErrData(e)) : e \in ConcValues}
        \cup {PRejected(ErrorObj("rejected"))}

NoInstance == [t |-> "none"]

\* no library call made yet
NoLast == [call |-> NoCall, out |-> NoCompletion, calls |-> <<>>, cls |-> "none"]

InitConc ==
    /\ promise = PPending
    /\ resolvedData = NullV
    /\ evals = 0
    /\ writes = 0
    /\ pc = [c \in Callers |-> "idle"]
    /\ call = [c \in Callers |-> NoCall]
    /\ sawEmpty = [c \in Callers |-> FALSE]
    /\ got = [c \in Callers |-> NoCompletion]
    /\ out = [c \in Callers |-> NoCompletion]
    /\ started = 0
    /\ cur = NoInstance
    /\ via = NoCall
    /\ last = NoLast
    /\ lhs = NoCompletion
    /\ rhs = NoCompletion
    /\ steps = 0

\* the wrapped computation runs to its end and settles the promise, once
Settle(p) ==
    /\ promise.state = "pending"
    /\ promise' = p
    /\ evals' = evals + 1
    /\ UNCHANGED <<resolvedData, writes, pc, call, sawEmpty, got, out, started>>
    /\ UNCHANGED libVars
    /\ UNCHANGED lawVars

\* Begin without the `if (!this.resolvedData)` guard: every call awaits the promise
BeginUnconditional(c, k) ==
    /\ pc[c] \in {"idle", "done"}
    /\ started < MaxCalls
    /\ started' = started + 1
    /\ call' = [call EXCEPT ![c] = k]
    /\ out' = [out EXCEPT ![c] = NoCompletion]
    /\ sawEmpty' = [sawEmpty EXCEPT ![c] = SlotEmpty(resolvedData)]
    /\ pc' = [pc EXCEPT ![c] = "awaitPromise"]
    /\ got' = [got EXCEPT ![c] = NoCompletion]
    /\ UNCHANGED <<promise, resolvedData, evals, writes>>
    /\ UNCHANGED libVars
    /\ UNCHANGED lawVars

\* Begin over a stored thunk: a call that finds the slot empty runs the
\* computation again instead of awaiting the one promise
BeginReinvoking(c, k) ==
    /\ pc[c] \in {"idle", "done"}
    /\ started < MaxCalls
    /\ started' = started + 1
    /\ call' = [call EXCEPT ![c] = k]
    /\ out' = [out EXCEPT ![c] = NoCompletion]
    /\ sawEmpty' = [sawEmpty EXCEPT ![c] = SlotEmpty(resolvedData)]
    /\ IF SlotEmpty(resolvedData)
       THEN /\ pc' = [pc EXCEPT ![c] = "awaitPromise"]
            /\ got' = [got EXCEPT ![c] = NoCompletion]
            /\ evals' = evals + 1
       ELSE /\ pc' = [pc EXCEPT ![c] = "awaitData"]
            /\ got' = [got EXCEPT ![c] = Return(resolvedData)]
            /\ evals' = evals
    /\ UNCHANGED <<promise, resolvedData, writes>>
    /\ UNCHANGED libVars
    /\ UNCHANGED lawVars

\* A method is called: it runs into getResolvedData(), which tests the slot and
\* either suspends on `await this.promise` or returns the stored data
Begin(c, k) ==
    /\ pc[c] \in {"idle", "done"}
    /\ started < MaxCalls
    /\ started' = started + 1
    /\ call' = [call EXCEPT ![c] = k]
    /\ out' = [out EXCEPT ![c] = NoCompletion]
    /\ sawEmpty' = [sawEmpty EXCEPT ![c] = SlotEmpty(resolvedData)]
    /\ IF SlotEmpty(resolvedData)
       THEN /\ pc' = [pc EXCEPT ![c] = "awaitPromise"]
            /\ got' = [got EXCEPT ![c] = NoCompletion]
       ELSE /\ pc' = [pc EXCEPT ![c] = "awaitData"]
            /\ got' = [got EXCEPT ![c] = Return(resolvedData)]
    /\ UNCHANGED <<promise, resolvedData, evals, writes>>
    /\ UNCHANGED libVars
    /\ UNCHANGED lawVars

\* Resume on the result of a computation run afresh for this caller
ResumeRefetching(c) ==
    /\ pc[c] = "awaitPromise"
    /\ promise.state # "pending"
    /\ pc' = [pc EXCEPT ![c] = "awaitData"]
    /\ \E p \in Settlements :
          IF p.state = "fulfilled"
          THEN /\ resolvedData' = p.value
               /\ writes' = writes + 1
               /\ got' = [got EXCEPT ![c] = Return(resolvedData')]
          ELSE /\ got' = [got EXCEPT ![c] = Throw(p.reason)]
               /\ UNCHANGED <<resolvedData, writes>>
    /\ UNCHANGED <<promise, evals, call, sawEmpty, out, started>>
    /\ UNCHANGED libVars
    /\ UNCHANGED lawVars

\* `this.resolvedData = await this.promise; return this.resolvedData` resumes
\* once the promise has settled; a rejection leaves the slot as it is
Resume(c) ==
    /\ pc[c] = "awaitPromise"
    /\ promise.state # "pending"
    /\ pc' = [pc EXCEPT ![c] = "awaitData"]
    /\ IF promise.state = "fulfilled"
       THEN /\ resolvedData' = promise.value
            /\ writes' = writes + 1
            /\ got' = [got EXCEPT ![c] = Return(resolvedData')]
       ELSE /\ got' = [got EXCEPT ![c] = Throw(promise.reason)]
            /\ UNCHANGED <<resolvedData, writes>>
    /\ UNCHANGED <<promise, evals, call, sawEmpty, out, started>>
    /\ UNCHANGED libVars
    /\ UNCHANGED lawVars

\* Continue that takes the data out of the slot
ContinueConsuming(c) ==
    /\ pc[c] = "awaitData"
    /\ pc' = [pc EXCEPT ![c] = "done"]
    /\ out' = [out EXCEPT ![c] =
                 IF got[c].k = "throw" THEN got[c] ELSE AsyncBody(call[c], got[c].v).out]
    /\ resolvedData' = NullV
    /\ UNCHANGED <<promise, evals, writes, call, sawEmpty, got, started>>
    /\ UNCHANGED libVars
    /\ UNCHANGED lawVars

\* the method resumes after `await this.getResolvedData()` and runs to its end
Continue(c) ==
    /\ pc[c] = "awaitData"
    /\ pc' = [pc EXCEPT ![c] = "done"]
    /\ out' = [out EXCEPT ![c] =
                 IF got[c].k = "throw" THEN got[c] ELSE AsyncBody(call[c], got[c].v).out]
    /\ UNCHANGED <<promise, resolvedData, evals, writes, call, sawEmpty, got, started>>
    /\ UNCHANGED libVars
    /\ UNCHANGED lawVars

rMap(c) == Begin(c, CallRMap("typeOf"))
rMapErr(c) == Begin(c, CallRMapErr("typeOf"))
chain(c) == Begin(c, CallChain("okSame"))
match(c) == Begin(c, CallMatch("typeOf", "same"))
unwrap(c) == Begin(c, CallUnwrap)
unwrapOr(c) == Begin(c, CallUnwrapOr(Num(1)))
unwrapErr(c) == Begin(c, CallUnwrapErr)
toPromise(c) == Begin(c, CallToPromise)
isOk(c) == Begin(c, CallIsOk)
isErr(c) == Begin(c, CallIsErr)

Next ==
    \/ \E p \in Settlements : Settle(p)
    \/ \E c \in Callers : rMap(c)
    \/ \E c \in Callers : rMapErr(c)
    \/ \E c \in Callers : chain(c)
    \/ \E c \in Callers : match(c)
    \/ \E c \in Callers : unwrap(c)
    \/ \E c \in Callers : unwrapOr(c)
    \/ \E c \in Callers : unwrapErr(c)
    \/ \E c \in Callers : toPromise(c)
    \/ \E c \in Callers : isOk(c)
    \/ \E c \in Callers : isErr(c)
    \/ \E c \in Callers : Resume(c)
    \/ \E c \in Callers : Continue(c)

Spec == InitConc /\ [][Next]_vars

----------------------------------------------------------------------------
(* SpecLib: a sequential client of both classes.  Every call is awaited to   *)
(* its completion before the next; `last` keeps the call, its completion and *)
(* the functions it invoked, `cur` the instance the client holds: it builds  *)
(* one through a factory (or the constructor), calls methods on it, and may  *)
(* go on (Adopt) with the instance a call returned.                          *)

Numbers == {Num(n) : n \in 0 .. NumMax}

\* plain payloads, the falsy ones and one that cannot be stringified included
Plain == Numbers \cup {Str(""), Str("e"), NullV, UndefV, Bool(FALSE), Sym}

Rejection == ErrorObj("rejected")

\* arguments of type A | Promise<A>
Deferred == Plain \cup {PFulfilled(v) : v \in Plain} \cup {PRejected(Rejection)}

ErrorArgs == {Str("e"), Sym}

Defaults == {Num(0), UndefV}

Thunks == [v : {Num(0), Sym, Rejection}, body : {"return", "throw"}]

AsyncThunks == [v : {Num(0), Sym, Rejection}, body : {"resolve", "reject", "throw"}]

\* onError is trusted not to raise
ErrorHandlers == {"same", "typeOf"}

\* promises a client can hand to the constructor
DataPromises ==
    {PFulfilled(OkData(v)) : v \in {Num(0), Sym}}
        \cup {PFulfilled(ErrData(e)) : e \in {Str("e"), Sym}}
        \cup {PRejected(Rejection)}

\* branches handed to match, as <<onErr, onOk>>
MatchPairs ==
    {<<"typeOf", "same">>, <<"same", "typeOf">>, <<"later", "boom">>,
     <<"boom", "later">>, <<"fails", "same">>, <<"same", "fails">>}

\* the client holds no instance yet: it is about to build one
Fresh == cur = NoInstance

Called(cls, c, o) == last' = [call |-> c, out |-> o.out, calls |-> o.calls, cls |-> cls]

Pure(completion) == [out |-> completion, calls |-> <<>>]

Result_ok(value) ==
    /\ Fresh
    /\ Called("Result", [value |-> value, m |-> "ok"], Pure(Return(ResultOk(value))))
    /\ UNCHANGED <<cur, via>>
    /\ UNCHANGED concVars
    /\ UNCHANGED lawVars

Result_err(error) ==
    /\ Fresh
    /\ Called("Result", [error |-> error, m |-> "err"], Pure(Return(ResultErr(error))))
    /\ UNCHANGED <<cur, via>>
    /\ UNCHANGED concVars
    /\ UNCHANGED lawVars

Result_fromNullableWithError(error, value) ==
    /\ Fresh
    /\ Called("Result", [value |-> value, error |-> error, m |-> "fromNullableWithError"],
              Pure(Return(ResultFromNullableWithError(error, value))))
    /\ UNCHANGED <<cur, via>>
    /\ UNCHANGED concVars
    /\ UNCHANGED lawVars

Result_tryCatch(f, onError) ==
    /\ Fresh
    /\ Called("Result", [f |-> f, onError |-> onError, m |-> "tryCatch"],
              ResultTryCatch(f, onError))
    /\ UNCHANGED <<cur, via>>
    /\ UNCHANGED concVars
    /\ UNCHANGED lawVars

\* a Result method called on cur
ResultMethod(self, c) ==
    CASE c.m = "rMap" -> ResultRMap(self, c.f)
      [] c.m = "rMapErr" -> ResultRMapErr(self, c.f)
      [] c.m = "chain" -> ResultChain(self, c.f)
      [] c.m = "match" -> ResultMatch(self, c.onErr, c.onOk)
      [] c.m = "unwrap" -> ResultUnwrap(self)
      [] c.m = "unwrapOr" -> ResultUnwrapOr(self, c.defaultValue)
      [] c.m = "unwrapErr" -> ResultUnwrapErr(self)
      [] c.m = "toPromise" -> ResultToPromise(self)
      [] c.m = "isOk" -> ResultIsOk(self)
      [] c.m = "isErr" -> ResultIsErr(self)

OnResult(c) ==
    /\ cur.t = "Result"
    /\ LET o == ResultMethod(cur, c) IN
          /\ cur' = o.self
          /\ Called("Result", c, o)
    /\ UNCHANGED via
    /\ UNCHANGED concVars
    /\ UNCHANGED lawVars

Result_rMap(f) == OnResult(CallRMap(f))
Result_rMapErr(f) == OnResult(CallRMapErr(f))
Result_chain(f) == OnResult(CallChain(f))
Result_match(onErr, onOk) == OnResult(CallMatch(onErr, onOk))
Result_unwrap == OnResult(CallUnwrap)
Result_unwrapOr(d) == OnResult(CallUnwrapOr(d))
Result_unwrapErr == OnResult(CallUnwrapErr)
Result_toPromise == OnResult(CallToPromise)
Result_isOk == OnResult(CallIsOk)
Result_isErr == OnResult(CallIsErr)

AsyncResult_new(p) ==
    /\ Fresh
    /\ Called("AsyncResult", [promise |-> p, m |-> "new"], Pure(Return(NewAsyncResult(p))))
    /\ UNCHANGED <<cur, via>>
    /\ UNCHANGED concVars
    /\ UNCHANGED lawVars

AsyncResult_ok(value) ==
    /\ Fresh
    /\ Called("AsyncResult", [value |-> value, m |-> "ok"], Pure(AsyncOk(value)))
    /\ UNCHANGED <<cur, via>>
    /\ UNCHANGED concVars
    /\ UNCHANGED lawVars

AsyncResult_err(error) ==
    /\ Fresh
    /\ Called("AsyncResult", [error |-> error, m |-> "err"], Pure(AsyncErr(error)))
    /\ UNCHANGED <<cur, via>>
    /\ UNCHANGED concVars
    /\ UNCHANGED lawVars

AsyncResult_fromNullableWithError(error, value) ==
    /\ Fresh
    /\ Called("AsyncResult", [value |-> value, error |-> error, m |-> "fromNullableWithError"],
              Pure(AsyncFromNullableWithError(error, value)))
    /\ UNCHANGED <<cur, via>>
    /\ UNCHANGED concVars
    /\ UNCHANGED lawVars

AsyncResult_tryCatch(f, onError) ==
    /\ Fresh
    /\ Called("AsyncResult", [f |-> f, onError |-> onError, m |-> "tryCatch"],
              AsyncTryCatch(f, onError))
    /\ UNCHANGED <<cur, via>>
    /\ UNCHANGED concVars
    /\ UNCHANGED lawVars

AsyncResult_fromPromise(p, onError) ==
    /\ Fresh
    /\ Called("AsyncResult", [promise |-> p, onError |-> onError, m |-> "fromPromise"],
              AsyncFromPromise(p, onError))
    /\ UNCHANGED <<cur, via>>
    /\ UNCHANGED concVars
    /\ UNCHANGED lawVars

OnAsyncResult(c) ==
    /\ cur.t = "AsyncResult"
    /\ LET o == AsyncMethod(cur, c) IN
          /\ cur' = o.self
          /\ Called("AsyncResult", c, o)
    /\ UNCHANGED via
    /\ UNCHANGED concVars
    /\ UNCHANGED lawVars

AsyncResult_rMap(f) == OnAsyncResult(CallRMap(f))
AsyncResult_rMapErr(f) == OnAsyncResult(CallRMapErr(f))
AsyncResult_chain(f) == OnAsyncResult(CallChain(f))
AsyncResult_match(onErr, onOk) == OnAsyncResult(CallMatch(onErr, onOk))
AsyncResult_unwrap == OnAsyncResult(CallUnwrap)
AsyncResult_unwrapOr(d) == OnAsyncResult(CallUnwrapOr(d))
AsyncResult_unwrapErr == OnAsyncResult(CallUnwrapErr)
AsyncResult_toPromise == OnAsyncResult(CallToPromise)
AsyncResult_isOk == OnAsyncResult(CallIsOk)
AsyncResult_isErr == OnAsyncResult(CallIsErr)

IsInstance(x) == x.t \in {"Result", "AsyncResult"}

\* the client goes on with the instance the last call returned
Adopt ==
    /\ last.out.k = "return"
    /\ IsInstance(last.out.v)
    /\ cur' = last.out.v
    /\ via' = last.call
    /\ last' = [call |-> [m |-> "adopt"], out |-> NoCompletion, calls |-> <<>>, cls |-> last.cls]
    /\ UNCHANGED concVars
    /\ UNCHANGED lawVars

NextLib ==
    \/ \E v \in Plain : Result_ok(v)
    \/ \E e \in Plain : Result_err(e)
    \/ \E e \in ErrorArgs, v \in Plain : Result_fromNullableWithError(e, v)
    \/ \E f \in Thunks, h \in ErrorHandlers : Result_tryCatch(f, h)
    \/ \E f \in MapFns : Result_rMap(f)
    \/ \E f \in MapFns : Result_rMapErr(f)
    \/ \E f \in SyncChainFns : Result_chain(f)
    \/ \E gf \in MatchPairs : Result_match(gf[1], gf[2])
    \/ Result_unwrap
    \/ \E d \in Defaults : Result_unwrapOr(d)
    \/ Result_unwrapErr
    \/ Result_toPromise
    \/ Result_isOk
    \/ Result_isErr
    \/ \E p \in DataPromises : AsyncResult_new(p)
    \/ \E v \in Deferred : AsyncResult_ok(v)
    \/ \E e \in Deferred : AsyncResult_err(e)
    \/ \E e \in ErrorArgs, v \in Deferred : AsyncResult_fromNullableWithError(e, v)
    \/ \E f \in AsyncThunks, h \in ErrorHandlers : AsyncResult_tryCatch(f, h)
    \/ \E v \in {Num(0), Sym}, h \in ErrorHandlers :
          \/ AsyncResult_fromPromise(PFulfilled(v), h)
          \/ AsyncResult_fromPromise(PRejected(v), h)
    \/ \E f \in MapFns : AsyncResult_rMap(f)
    \/ \E f \in MapFns : AsyncResult_rMapErr(f)
    \/ \E f \in AsyncChainFns : AsyncResult_chain(f)
    \/ \E gf \in MatchPairs : AsyncResult_match(gf[1], gf[2])
    \/ AsyncResult_unwrap
    \/ \E d \in Defaults : AsyncResult_unwrapOr(d)
    \/ AsyncResult_unwrapErr
    \/ AsyncResult_toPromise
    \/ AsyncResult_isOk
    \/ AsyncResult_isErr
    \/ Adopt

SpecLib == InitConc /\ [][NextLib]_vars

----------------------------------------------------------------------------
(* SpecAssoc: both sides of the associativity law of chain, computed on one  *)
(* receiver drawn at the start.  lhs is the completion of                    *)
(* r.chain(f).chain(g), rhs that of r.chain(x => f(x).chain(g)); for an      *)
(* AsyncResult every call is awaited before the next.                        *)

\* the outcomes a law starts from: fresh instances of both classes, and an
\* AsyncResult built by the constructor around a promise that rejects
Receivers ==
    {ResultOk(v) : v \in Plain} \cup {ResultErr(e) : e \in Plain}
        \cup {AsyncOk(v).v : v \in Plain} \cup {AsyncErr(e).v : e \in Plain}
        \cup {NewAsyncResult(PRejected(Rejection))}

\* functions handed to chain that return an outcome
SyncOutcomeFns == {"okSame", "errType"}
AsyncOutcomeFns == {"okSame", "errType", "direct"}

InitAssoc ==
    /\ promise = PPending
    /\ resolvedData = NullV
    /\ evals = 0
    /\ writes = 0
    /\ pc = [c \in Callers |-> "idle"]
    /\ call = [c \in Callers |-> NoCall]
    /\ sawEmpty = [c \in Callers |-> FALSE]
    /\ got = [c \in Callers |-> NoCompletion]
    /\ out = [c \in Callers |-> NoCompletion]
    /\ started = 0
    /\ cur \in Receivers
    /\ via = NoCall
    /\ last = NoLast
    /\ lhs = NoCompletion
    /\ rhs = NoCompletion
    /\ steps = 0

\* r.chain(f).chain(g) on one side, r.chain(x => f(x).chain(g)) on the other
Result_chain_chain(f, g) ==
    /\ cur.t = "Result"
    /\ LET first == ResultChain(cur, f)
           second == IF first.out.k = "throw" THEN first
                     ELSE ResultChain(first.out.v, g)
           composed == ResultChain(cur, Composed(f, g))
       IN /\ lhs' = second.out
          /\ rhs' = composed.out
          /\ cur' = composed.self
          /\ Called("Result", CallChain(Composed(f, g)), composed)
    /\ UNCHANGED <<via, steps>>
    /\ UNCHANGED concVars

\* (await r.chain(f)).chain(g) on one side, r.chain(composed) on the other
AsyncResult_chain_chain(f, g) ==
    /\ cur.t = "AsyncResult"
    /\ LET first == AsyncMethod(cur, CallChain(f))
           second == IF first.out.k = "throw" THEN first
                     ELSE AsyncMethod(first.out.v, CallChain(g))
           composed == AsyncMethod(first.self, CallChain(Composed(f, g)))
       IN /\ lhs' = second.out
          /\ rhs' = composed.out
          /\ cur' = composed.self
          /\ Called("AsyncResult", CallChain(Composed(f, g)), composed)
    /\ UNCHANGED <<via, steps>>
    /\ UNCHANGED concVars

NextAssoc ==
    \/ \E f \in SyncChainFns, g \in SyncChainFns : Result_chain_chain(f, g)
    \/ \E f \in AsyncChainFns \ {"plain"}, g \in AsyncChainFns : AsyncResult_chain_chain(f, g)

SpecAssoc == InitAssoc /\ [][NextAssoc]_vars

----------------------------------------------------------------------------
(* SpecPair: one pipeline run on both classes at once.  cur is the pair      *)
(* <<Result, AsyncResult>> built from the same plain outcome; every step     *)
(* makes the same call on both, lhs and rhs being its completions; a         *)
(* combinator step goes on with the two instances it returned.               *)

\* non-raising synchronous functions for rMap, rMapErr and the branches of match
PlainFns == {"same", "typeOf"}

\* x => ok(x) and x => err(typeof x), of the class the pipeline runs on
PlainChainFns == {"okSame", "errType"}

PlainMatchPairs == {<<"typeOf", "same">>, <<"same", "typeOf">>}

InitPair ==
    /\ promise = PPending
    /\ resolvedData = NullV
    /\ evals = 0
    /\ writes = 0
    /\ pc = [c \in Callers |-> "idle"]
    /\ call = [c \in Callers |-> NoCall]
    /\ sawEmpty = [c \in Callers |-> FALSE]
    /\ got = [c \in Callers |-> NoCompletion]
    /\ out = [c \in Callers |-> NoCompletion]
    /\ started = 0
    /\ cur \in {<<ResultOk(v), AsyncOk(v).v>> : v \in Plain}
                \cup {<<ResultErr(e), AsyncErr(e).v>> : e \in Plain}
    /\ via = NoCall
    /\ last = NoLast
    /\ lhs = NoCompletion
    /\ rhs = NoCompletion
    /\ steps = 0

\* rMap, rMapErr or chain called on both instances; the pipeline goes on with
\* the instances returned
PairStep(c) ==
    /\ steps < MaxSteps
    /\ steps' = steps + 1
    /\ LET s == ResultMethod(cur[1], c)
           a == AsyncMethod(cur[2], c)
       IN /\ lhs' = s.out
          /\ rhs' = a.out
          /\ cur' = IF s.out.k = "return" /\ a.out.k = "return"
                    THEN <<s.out.v, a.out.v>> ELSE <<s.self, a.self>>
          /\ Called("both", c, a)
    /\ UNCHANGED via
    /\ UNCHANGED concVars

\* an accessor called on both instances
PairObserve(c) ==
    /\ LET s == ResultMethod(cur[1], c)
           a == AsyncMethod(cur[2], c)
       IN /\ lhs' = s.out
          /\ rhs' = a.out
          /\ cur' = <<s.self, a.self>>
          /\ Called("both", c, a)
    /\ UNCHANGED <<via, steps>>
    /\ UNCHANGED concVars

Pair_rMap(f) == PairStep(CallRMap(f))
Pair_rMapErr(f) == PairStep(CallRMapErr(f))
Pair_chain(f) == PairStep(CallChain(f))
Pair_match(onErr, onOk) == PairObserve(CallMatch(onErr, onOk))
Pair_unwrap == PairObserve(CallUnwrap)
Pair_unwrapOr(d) == PairObserve(CallUnwrapOr(d))
Pair_unwrapErr == PairObserve(CallUnwrapErr)
Pair_toPromise == PairObserve(CallToPromise)
Pair_isOk == PairObserve(CallIsOk)
Pair_isErr == PairObserve(CallIsErr)

NextPair ==
    \/ \E f \in PlainFns : Pair_rMap(f)
    \/ \E f \in PlainFns : Pair_rMapErr(f)
    \/ \E f \in PlainChainFns : Pair_chain(f)
    \/ \E gf \in PlainMatchPairs : Pair_match(gf[1], gf[2])
    \/ Pair_unwrap
    \/ \E d \in Defaults : Pair_unwrapOr(d)
    \/ Pair_unwrapErr
    \/ Pair_toPromise
    \/ Pair_isOk
    \/ Pair_isErr

SpecPair == InitPair /\ [][NextPair]_vars

----------------------------------------------------------------------------
(* Claims about the memoization slot, checked under Spec *)

\* C1 as stated: the slot is written at most once, whatever the interleaving.
C1_WrittenAtMostOnce == writes <= 1

\* C1 as amended: the slot is assigned only by a call that found it empty, once per
\* such call, after the promise has fulfilled and with the promise's value; it
\* holds that value from the first write on, and a call begun after the slot was
\* populated never writes it.
C1_WrittenOnlyByCallsThatSawItEmpty ==
    /\ [](writes > 0 => (promise.state = "fulfilled" /\ resolvedData = promise.value))
    /\ [][/\ resolvedData' # resolvedData => writes' # writes
          /\ writes' # writes =>
                /\ writes' = writes + 1
                /\ promise.state = "fulfilled"
                /\ resolvedData' = promise.value
                /\ \E c \in Callers :
                      /\ pc[c] = "awaitPromise"
                      /\ pc'[c] = "awaitData"
                      /\ sawEmpty[c]]_vars

\* two concurrent first accesses have both written, and a later call has read the slot
C1_Witness ==
    /\ writes = 2
    /\ resolvedData = promise.value
    /\ \E c \in Callers : pc[c] = "done" /\ ~sawEmpty[c] /\ got[c] = Return(resolvedData)

\* C2: however many methods are called on the instance, and however they
\* interleave, the wrapped computation is evaluated at most once.
C2_EvaluatedAtMostOnce == evals <= 1

\* every allowed call was made, two of them are complete, after one evaluation
C2_Witness ==
    /\ evals = 1
    /\ started = MaxCalls
    /\ \A c \in Callers : pc[c] = "done" /\ out[c].k = "return"

\* C3: any two operations on the instance observe the same outcome: the same
\* resolved data (tag and payload) or the same rejection, and two calls of the
\* same method complete alike.
C3_SameOutcomeForAll ==
    \A c1, c2 \in Callers :
        /\ (got[c1].k # "none" /\ got[c2].k # "none") => got[c1] = got[c2]
        /\ (pc[c1] = "done" /\ pc[c2] = "done" /\ call[c1] = call[c2]) => out[c1] = out[c2]

\* two operations started before resolution have both observed the data
C3_Witness ==
    \E c1, c2 \in Callers :
        /\ c1 # c2
        /\ sawEmpty[c1] /\ sawEmpty[c2]
        /\ pc[c1] = "done" /\ pc[c2] = "done"
        /\ got[c1].k = "return" /\ got[c1].v._tag = "Err"
        /\ call[c1] = CallIsOk /\ call[c2] = CallIsErr

\* C4 as stated, its first half: an access that has come back has moved the
\* instance to Resolved.
C4_FirstAccessResolves ==
    \A c \in Callers : pc[c] \in {"awaitData", "done"} => ~SlotEmpty(resolvedData)

\* C4 as amended: an access that comes back with data has moved the instance to
\* Resolved (one whose promise rejects leaves it Pending); from then on the slot is
\* never emptied, its value never changes and the computation is not run again.
C4_ResolvedIsOneWay ==
    /\ [](\A c \in Callers : got[c].k = "return" =>
             (~SlotEmpty(resolvedData) /\ resolvedData = got[c].v))
    /\ [](\A c \in Callers : got[c].k = "throw" => SlotEmpty(resolvedData))
    /\ [][~SlotEmpty(resolvedData) => (resolvedData' = resolvedData /\ evals' = evals)]_vars

\* the instance is Resolved and every allowed call on it has completed
C4_Witness ==
    /\ ~SlotEmpty(resolvedData)
    /\ started = MaxCalls
    /\ \A c \in Callers : pc[c] = "done"
    /\ \E c \in Callers : ~sawEmpty[c]

----------------------------------------------------------------------------
(* Claims about the two classes, checked under SpecLib *)

\* the tagged union an instance holds, as its methods see it
DataOf(inst) ==
    IF inst.t = "Result" THEN inst.data ELSE GetResolvedData(inst).out.v

\* the data the last method call worked on
RecvData == IF cur.t = "Result" THEN cur.data ELSE cur.resolvedData

OnMethod(m) == IsInstance(cur) /\ last.call.m = m /\ IsData(RecvData)

\* the value an argument of type A | Promise<A> stands for
Settled(x) == IF x.t = "promise" /\ x.state = "fulfilled" THEN x.value ELSE x

\* a step that is a method call on the instance the client holds
MethodStep == IsInstance(cur) /\ last'.call.m # "adopt" /\ last' # last

IsOkOf(inst) ==
    IF inst.t = "Result" THEN ResultIsOk(inst).out ELSE AsyncMethod(inst, CallIsOk).out

IsErrOf(inst) ==
    IF inst.t = "Result" THEN ResultIsErr(inst).out ELSE AsyncMethod(inst, CallIsErr).out

\* an AsyncResult counts as resolved (or resolvable) when its promise fulfilled
Resolvable(inst) == inst.t = "Result" \/ inst.promise.state = "fulfilled"

\* C5: an instance is exactly one of Ok and Err: isOk() and isErr() answer with
\* opposite booleans in every state, and no method call on an instance changes
\* the tag and payload it was built with.
C5_OneCaseForLife ==
    /\ []((IsInstance(cur) /\ Resolvable(cur)) =>
             /\ IsOkOf(cur).k = "return" /\ IsErrOf(cur).k = "return"
             /\ IsOkOf(cur).v.b # IsErrOf(cur).v.b
             /\ IsOkOf(cur).v.b = (DataOf(cur)._tag = "Ok"))
    /\ [][(MethodStep /\ Resolvable(cur)) =>
             /\ DataOf(cur') = DataOf(cur)
             /\ cur'.t = cur.t
             /\ (cur.t = "AsyncResult" => cur'.promise = cur.promise)]_vars

\* an instance that came out of a chain has had a function mapped over it
C5_Witness ==
    /\ IsInstance(cur) /\ via.m = "chain"
    /\ last.call.m \in {"rMap", "rMapErr"}
    /\ last.calls # <<>>
    /\ last.out.k = "return"

\* the receiver's tag, for the calls that got as far as reading it
RecvTag == IF IsData(RecvData) THEN RecvData._tag ELSE "none"

Misuse ==
    \/ last.call.m = "unwrap" /\ RecvTag = "Err"
    \/ last.call.m = "unwrapErr" /\ RecvTag = "Ok"
    \/ last.call.m = "toPromise" /\ RecvTag = "Err" /\ last.cls = "AsyncResult"

NonRaisingFns == {"same", "typeOf", "later", "okSame", "errType", "direct", "plain"}

\* the inputs of the last call under which the library is on its own: promise
\* arguments fulfil, the receiver's promise fulfilled, callbacks do not raise
Benign ==
    /\ last.call.m \in {"ok", "fromNullableWithError"} =>
          (last.call.value.t = "promise" => last.call.value.state = "fulfilled")
    /\ last.call.m = "err" =>
          (last.call.error.t = "promise" => last.call.error.state = "fulfilled")
    /\ last.call.m \in {"rMap", "rMapErr", "chain"} => last.call.f \in NonRaisingFns
    /\ last.call.m = "match" => {last.call.onErr, last.call.onOk} \subseteq NonRaisingFns
    /\ (IsInstance(cur) /\ cur.t = "AsyncResult") => cur.promise.state = "fulfilled"

C7_UnwrapFailsWithMessage ==
    /\ (OnMethod("unwrap") /\ RecvTag = "Err") =>
          /\ last.out.k = "throw"
          /\ last.out.v.t = "Error"
          /\ \E str \in {"0", "1", "2", "", "e", "null", "undefined", "false", "Symbol()",
                         "number", "string", "object", "boolean", "symbol",
                         "Error: rejected", "Error: boom"} :
                last.out.v.message = UnwrapMessage \o str
    /\ (OnMethod("unwrapErr") /\ RecvTag = "Ok") =>
          (last.out.k = "throw" /\ last.out.v.t = "Error")
    /\ (OnMethod("unwrap") /\ RecvTag = "Ok") => last.out = Return(RecvData.value)
    /\ (OnMethod("unwrapErr") /\ RecvTag = "Err") => last.out = Return(RecvData.error)

\* C8: ok(v) is a Success whose unwrap() is v, err(e) a Failure whose unwrapErr()
\* is e; AsyncResult's factories give the same for a plain argument and for a
\* promise resolving to it.
C8_FactoriesWrapTheirArgument ==
    /\ (via.m = "ok" /\ last.call.m = "isOk") => last.out = Return(Bool(TRUE))
    /\ (via.m = "ok" /\ last.call.m = "unwrap") => last.out = Return(Settled(via.value))
    /\ (via.m = "err" /\ last.call.m = "isErr") => last.out = Return(Bool(TRUE))
    /\ (via.m = "err" /\ last.call.m = "unwrapErr") => last.out = Return(Settled(via.error))

\* AsyncResult.err was given a promise, and unwrapErr() gave what it resolved to
C8_Witness ==
    /\ last.cls = "AsyncResult"
    /\ via.m = "err" /\ via.error = PFulfilled(Str("e"))
    /\ last.call.m = "unwrapErr"
    /\ last.out = Return(Str("e"))

\* f returned, and what it returned (a promise included) did not reject
Returned(f, x) ==
    /\ Apply(f, x).k = "return"
    /\ (last.cls = "AsyncResult" => Await(Apply(f, x).v).k = "return")

\* the value f(x) stands for: AsyncResult awaits it, Result takes it as it is
Mapped(f, x) ==
    IF last.cls = "AsyncResult" THEN Await(Apply(f, x).v).v ELSE Apply(f, x).v

\* C9: rMap applies f to the value of a Success, once, and gives a Success
\* carrying f(v); on a Failure it gives a Failure carrying the same error and
\* does not invoke f.  rMapErr is the same with the channels exchanged.
C9_MapActsOnOneChannel ==
    /\ (OnMethod("rMap") /\ RecvTag = "Ok" /\ Returned(last.call.f, RecvData.value)) =>
          /\ last.out.k = "return"
          /\ DataOf(last.out.v) = OkData(Mapped(last.call.f, RecvData.value))
          /\ last.calls = <<<<"f", RecvData.value>>>>
    /\ (OnMethod("rMap") /\ RecvTag = "Err") =>
          /\ last.out.k = "return"
          /\ DataOf(last.out.v) = ErrData(RecvData.error)
          /\ last.calls = <<>>
    /\ (OnMethod("rMapErr") /\ RecvTag = "Err" /\ Returned(last.call.f, RecvData.error)) =>
          /\ last.out.k = "return"
          /\ DataOf(last.out.v) = ErrData(Mapped(last.call.f, RecvData.error))
          /\ last.calls = <<<<"f", RecvData.error>>>>
    /\ (OnMethod("rMapErr") /\ RecvTag = "Ok") =>
          /\ last.out.k = "return"
          /\ DataOf(last.out.v) = OkData(RecvData.value)
          /\ last.calls = <<>>

\* an asynchronous f was mapped over the error of an AsyncResult
C9_Witness ==
    /\ last.cls = "AsyncResult"
    /\ OnMethod("rMapErr") /\ RecvTag = "Err"
    /\ last.call.f = "later"
    /\ last.out.k = "return"
    /\ DataOf(last.out.v) = ErrData(Str("string"))

\* C10: chain on a Failure does not invoke f and gives a Failure carrying the
\* same error, for both classes, whatever f is and wherever in a pipeline the
\* Failure arose.
C10_ChainShortCircuits ==
    (OnMethod("chain") /\ RecvTag = "Err") =>
        /\ last.calls = <<>>
        /\ last.out.k = "return"
        /\ last.out.v.t = cur.t
        /\ DataOf(last.out.v) = ErrData(RecvData.error)
        /\ (cur.t = "Result" => last.out.v = ResultErr(RecvData.error))
        /\ (cur.t = "AsyncResult" => last.out = AsyncErr(RecvData.error))

\* a chain step made a Failure, and the next chain step, with a raising f, kept it
C10_Witness ==
    /\ last.cls = "AsyncResult"
    /\ via.m = "chain" /\ via.f = "errType"
    /\ OnMethod("chain") /\ RecvTag = "Err"
    /\ last.call.f = "boom"
    /\ last.out.k = "return"

\* the payload the last method call found in the receiver
RecvPayload == IF RecvTag = "Ok" THEN RecvData.value ELSE RecvData.error

\* what the caller of an AsyncResult method gets of a branch's completion: the
\* awaited result; the caller of a Result method gets the completion itself
Awaited(c) == IF c.k = "throw" THEN c ELSE Await(c.v)

\* C12: match runs exactly one branch, once: onOk with the value on a Success,
\* onErr with the error on a Failure, never the other; it returns what that
\* branch returned, which for AsyncResult is the awaited result of a branch that
\* may be synchronous or asynchronous.
C12_MatchRunsOneBranch ==
    OnMethod("match") =>
        LET branch == IF RecvTag = "Ok" THEN "onOk" ELSE "onErr"
            fn == IF RecvTag = "Ok" THEN last.call.onOk ELSE last.call.onErr
            result == Apply(fn, RecvPayload)
        IN /\ last.calls = <<<<branch, RecvPayload>>>>
           /\ last.cls = "Result" => last.out = result
           /\ last.cls = "AsyncResult" => last.out = Awaited(result)

\* an asynchronous onOk ran on a Success whose onErr would have raised
C12_Witness ==
    /\ last.cls = "AsyncResult"
    /\ OnMethod("match") /\ RecvTag = "Ok"
    /\ last.call.onOk = "later" /\ last.call.onErr = "boom"
    /\ last.calls = <<<<"onOk", Num(0)>>>>
    /\ last.out = Return(Str("number"))

\* the argument of a factory is a promise that rejects
Rejects(x) == x.t = "promise" /\ x.state = "rejected"

\* C13: fromNullableWithError(e, value) gives Failure(e) exactly when value is
\* null or undefined and Success(value) otherwise, 0, "" and false included;
\* AsyncResult's applies the rule to what a promise argument resolves to.
C13_NullishBecomesFailure ==
    (last.call.m = "fromNullableWithError" /\ ~Rejects(last.call.value)) =>
        LET value == Settled(last.call.value) IN
        /\ last.out.k = "return"
        /\ last.out.v.t = last.cls
        /\ value.t \in {"null", "undefined"} =>
              DataOf(last.out.v) = ErrData(last.call.error)
        /\ value.t \notin {"null", "undefined"} =>
              DataOf(last.out.v) = OkData(value)

\* a promise of the empty string became a Success carrying the empty string
C13_Witness ==
    /\ last.cls = "AsyncResult"
    /\ last.call.m = "fromNullableWithError"
    /\ last.call.value = PFulfilled(Str(""))
    /\ last.out.k = "return"
    /\ DataOf(last.out.v) = OkData(Str(""))

\* C14: tryCatch gives a Success carrying what f returned (or, for AsyncResult,
\* what its promise resolved to) without invoking onError, and Failure(onError(x))
\* with onError invoked once, on x, when f raised x or its promise rejected
\* with x; fromPromise does the same for the promise it is given.
C14_TryCatchWrapsBothWays ==
    /\ last.call.m = "tryCatch" =>
          LET f == last.call.f IN
          /\ last.out.k = "return"
          /\ last.out.v.t = last.cls
          /\ f.body \in {"return", "resolve"} =>
                /\ DataOf(last.out.v) = OkData(f.v)
                /\ last.calls = <<<<"f", UndefV>>>>
          /\ f.body \in {"throw", "reject"} =>
                /\ DataOf(last.out.v) = ErrData(Apply(last.call.onError, f.v).v)
                /\ last.calls = <<<<"f", UndefV>>, <<"onError", f.v>>>>
    /\ last.call.m = "fromPromise" =>
          LET p == last.call.promise IN
          /\ last.out.k = "return"
          /\ last.out.v.t = "AsyncResult"
          /\ p.state = "fulfilled" =>
                /\ DataOf(last.out.v) = OkData(p.value)
                /\ last.calls = <<>>
          /\ p.state = "rejected" =>
                /\ DataOf(last.out.v) = ErrData(Apply(last.call.onError, p.reason).v)
                /\ last.calls = <<<<"onError", p.reason>>>>

\* f threw during its invocation and AsyncResult.tryCatch made a Failure of it
C14_Witness ==
    /\ last.cls = "AsyncResult"
    /\ last.call.m = "tryCatch"
    /\ last.call.f.body = "throw" /\ last.call.f.v = Sym
    /\ last.call.onError = "typeOf"
    /\ last.calls = <<<<"f", UndefV>>, <<"onError", Sym>>>>
    /\ last.out.k = "return"
    /\ DataOf(last.out.v) = ErrData(Str("symbol"))

\* C15: toPromise gives a promise resolved with the value of a Success and
\* a promise rejected with the error itself of a Failure; awaiting
\* AsyncResult's toPromise gives the value, or raises the error itself.
C15_ToPromiseKeepsThePayload ==
    OnMethod("toPromise") =>
        /\ (last.cls = "Result" /\ RecvTag = "Ok") =>
              /\ last.out.k = "return"
              /\ last.out.v.t = "promise"
              /\ Await(last.out.v) = Await(RecvData.value)
              /\ RecvData.value.t # "promise" => last.out.v = PFulfilled(RecvData.value)
        /\ (last.cls = "Result" /\ RecvTag = "Err") =>
              last.out = Return(PRejected(RecvData.error))
        /\ (last.cls = "AsyncResult" /\ RecvTag = "Ok") =>
              /\ RecvData.value.t # "promise"
              /\ last.out = Return(RecvData.value)
        /\ (last.cls = "AsyncResult" /\ RecvTag = "Err") =>
              last.out = Throw(RecvData.error)

\* toPromise of an AsyncResult Failure rejected with the error, a Symbol
C15_Witness ==
    /\ last.cls = "AsyncResult"
    /\ OnMethod("toPromise") /\ RecvTag = "Err"
    /\ RecvData.error = Sym
    /\ last.out = Throw(Sym)

\* C16: unwrapOr(d) returns the payload of a Success, a null, undefined or
\* falsy one included, and exactly d for a Failure, whatever d is; it never
\* raises, and invokes nothing.
C16_UnwrapOrNeverRaises ==
    OnMethod("unwrapOr") =>
        /\ last.out.k = "return"
        /\ last.calls = <<>>
        /\ RecvTag = "Ok" => last.out.v = RecvData.value
        /\ RecvTag = "Err" => last.out.v = last.call.defaultValue

\* unwrapOr(0) on an AsyncResult Success carrying null returned null
C16_Witness ==
    /\ last.cls = "AsyncResult"
    /\ OnMethod("unwrapOr") /\ RecvTag = "Ok"
    /\ RecvData.value = NullV
    /\ last.call.defaultValue = Num(0)
    /\ last.out = Return(NullV)

\* C17: AsyncResult.chain on a Success invokes f once, with the value, and
\* awaits what it returns: an AsyncResult instance, returned directly or through
\* a promise, comes out as it is, a Failure staying a Failure; any other value
\* comes out as a Success carrying it.
C17_ChainReturnsOrRewraps ==
    (/\ OnMethod("chain") /\ last.cls = "AsyncResult" /\ RecvTag = "Ok"
     /\ last.call.f \in {"okSame", "errType", "direct", "directFails", "plain"}) =>
        LET result == Awaited(ApplyAsyncChain(last.call.f, RecvData.value)) IN
        /\ last.calls = <<<<"f", RecvData.value>>>>
        /\ last.out.k = "return"
        /\ last.out.v.t = "AsyncResult"
        /\ result.v.t = "AsyncResult" => last.out.v = result.v
        /\ result.v.t # "AsyncResult" => DataOf(last.out.v) = OkData(result.v)
        /\ last.call.f \in {"okSame", "direct"} =>
              DataOf(last.out.v) = OkData(RecvData.value)
        /\ last.call.f = "errType" =>
              DataOf(last.out.v) = ErrData(TypeOf(RecvData.value))
        /\ last.call.f = "plain" =>
              DataOf(last.out.v) = OkData(TypeOf(RecvData.value))

\* f returned a promise of a Failure, and chain gave that Failure
C17_Witness ==
    /\ last.cls = "AsyncResult"
    /\ OnMethod("chain") /\ RecvTag = "Ok"
    /\ last.call.f = "errType"
    /\ last.calls = <<<<"f", Num(0)>>>>
    /\ last.out.k = "return"
    /\ DataOf(last.out.v) = ErrData(Str("number"))

\* the static factories and the combinators of AsyncResult
Producers == {"ok", "err", "fromNullableWithError", "tryCatch", "fromPromise",
              "rMap", "rMapErr", "chain"}

\* chain handed back the instance f built with the constructor
PassedThrough ==
    /\ last.call.m = "chain"
    /\ RecvTag = "Ok"
    /\ last.call.f \in {"direct", "directFails"}

----------------------------------------------------------------------------
(* Claims about chain's associativity, checked under SpecAssoc *)

\* f and g of the last r.chain(f).chain(g), from the composed name
AssocFns ==
    Parts(last.call.f, IF last.cls = "Result" THEN SyncChainFns ELSE AsyncChainFns)

\* C11: chain is associative.  For every outcome r and all f and g returning
\* outcomes, r.chain(f).chain(g) and r.chain(x => f(x).chain(g)) both return
\* and give the same tag and payload; when f or g raises instead, both sides
\* raise the same value.
C11_ChainIsAssociative ==
    lhs.k # "none" =>
        /\ lhs.k = rhs.k
        /\ lhs.k = "throw" => lhs.v = rhs.v
        /\ lhs.k = "return" =>
              /\ lhs.v.t = cur.t /\ rhs.v.t = cur.t
              /\ DataOf(lhs.v) = DataOf(rhs.v)
        /\ (/\ Resolvable(cur)
            /\ AssocFns[1] \in AsyncOutcomeFns
            /\ AssocFns[2] \in AsyncOutcomeFns) => lhs.k = "return"

\* a Success went through an f that keeps it a Success and a g that fails it
C11_Witness ==
    /\ lhs.k = "return" /\ rhs.k = "return"
    /\ cur.t = "AsyncResult"
    /\ last.call.f = Composed("okSame", "errType")
    /\ last.calls = <<<<"f", Num(1)>>>>
    /\ DataOf(lhs.v) = ErrData(Str("number"))
    /\ DataOf(rhs.v) = ErrData(Str("number"))

----------------------------------------------------------------------------
(* Claims about the two classes side by side, checked under SpecPair *)

\* C18: AsyncResult and Result agree on plain inputs.  After any sequence of
\* rMap, rMapErr and chain steps with non-raising synchronous functions the two
\* instances hold the same tag and payload, and isOk, isErr, unwrapOr, match,
\* unwrap, unwrapErr and toPromise give the same result, or the same failure,
\* on both (toPromise once Result's promise is awaited).
C18_AsyncMirrorsSync ==
    /\ cur[1].t = "Result" /\ cur[2].t = "AsyncResult"
    /\ DataOf(cur[1]) = DataOf(cur[2])
    /\ last.call.m \in {"rMap", "rMapErr", "chain"} =>
          /\ lhs = Return(cur[1])
          /\ rhs = Return(cur[2])
    /\ last.call.m \in {"isOk", "isErr", "unwrapOr", "match", "unwrap", "unwrapErr"} =>
          lhs = rhs
    /\ last.call.m = "toPromise" =>
          /\ lhs.k = "return"
          /\ lhs.v.t = "promise"
          /\ Await(lhs.v) = rhs

\* after a full pipeline that ended in a Failure, unwrap raised the same on both
C18_Witness ==
    /\ steps = MaxSteps
    /\ last.call.m = "unwrap"
    /\ DataOf(cur[2])._tag = "Err"
    /\ lhs.k = "throw" /\ lhs.v.t = "Error"
    /\ rhs = lhs

====
